---- MODULE Spec2Model ----
(***************************************************************************)
(* A model of Numpy_NN.py: a dense network trained by mini-batch gradient  *)
(* descent.  Four specifications share the module:                         *)
(*   SpecSplit  the INIT phase of L_layer_model (lines 293-309): the 80/20 *)
(*              split by a random permutation and the mini-batch slicing;  *)
(*   Spec       the training loop of L_layer_model (lines 310-334);        *)
(*   SpecNet    one L_model_forward / L_model_backward / update_parameters *)
(*              cycle, one layer per step;                                  *)
(*   SpecShape  the array shapes numpy gives initialize_parameters,        *)
(*              linear_forward, L_model_backward and linear_backward.      *)
(* Real numbers are modelled by integers: an accuracy is a whole number of *)
(* 1e-11 units, a weight, bias, gradient or learning rate is an integer.   *)
(***************************************************************************)
EXTENDS Integers, Sequences, FiniteSets, TLC

VARIABLES
    \* ---- L_layer_model, INIT phase (SpecSplit)
    sp_pc,          \* "split" | "batching" | "ready"
    sp_N,           \* X.shape[0] after the transpose of line 293: the samples
    sp_batch_size,  \* batch_size
    indices,        \* np.random.permutation(X.shape[0])
    training_idx,   \* indices[:ceil(0.8 N)]
    test_idx,       \* indices[ceil(0.8 N):]
    X_batches,      \* the mini-batches, each the sequence of its samples
    sp_i,           \* the loop variable of line 307
    \* ---- L_layer_model, training loop (Spec)
    pc,             \* the statement the run is at
    cfg,            \* the call's arguments and what INIT derived from them
    i,              \* the epoch loop variable of line 310
    j,              \* the batch loop variable of line 312
    batch_so_far,   \* line 306
    costs,          \* line 301
    stop_sign,      \* line 305
    current_accuracy,
    prev_accuracy,
    W_b_ver,        \* how many update_parameters calls W_b_dict has been through
    AL_ver,         \* the W_b_ver the last forward pass read
    grads_ver,      \* the W_b_ver the last backward pass differentiated
    it,             \* how many values range(num_iterations) has handed out
    acc_trace,      \* history: the validation accuracy of each finished epoch
    \* ---- one forward/backward/update cycle (SpecNet)
    n_pc,           \* "forward" | "forward_last" | "backward_last" | ...
    W_b_dict,       \* [W |-> <<..>>, b |-> <<..>>], one entry per layer
    W_b_0,          \* history: W_b_dict as the cycle started
    n_hp,           \* the cycle's arguments [learning_rate, L2_norm, X]
    l,              \* L_model_forward's / update_parameters' loop variable
    caches,         \* L_model_forward's caches
    applied,        \* history: the (layer, activation) steps of the forward pass
    used,           \* history: the caches L_model_backward has consumed
    grads,          \* L_model_backward's grads
    bi,             \* L_model_backward's loop variable (line 247)
    \* ---- shapes (SpecShape)
    s_pc,           \* "call" | "returned"
    s_call,         \* the operation and its operands' shapes
    s_result        \* what the call produced: a shape, a dictionary, or an error

splitVars == <<sp_pc, sp_N, sp_batch_size, indices, training_idx, test_idx,
               X_batches, sp_i>>
trainVars == <<pc, cfg, i, j, batch_so_far, costs, stop_sign, current_accuracy,
               prev_accuracy, W_b_ver, AL_ver, grads_ver, it, acc_trace>>
netVars   == <<n_pc, W_b_dict, W_b_0, n_hp, l, caches, applied, used, grads,
               bi>>
shapeVars == <<s_pc, s_call, s_result>>
vars      == <<splitVars, trainVars, netVars, shapeVars>>

\* Each specification steps one group of variables and leaves the others
SplitStep == UNCHANGED <<trainVars, netVars, shapeVars>>
TrainStep == UNCHANGED <<splitVars, netVars, shapeVars>>
NetStep   == UNCHANGED <<splitVars, trainVars, shapeVars>>
ShapeStep == UNCHANGED <<splitVars, trainVars, netVars>>

----------------------------------------------------------------------------
(* Bounds of the model                                                     *)

MaxN == 5
MaxBatchSize == 3
MaxIter == 50
MaxLayers == 3
MaxNetLayers == 3
MaxDim == 3
MaxSpecLen == 3

----------------------------------------------------------------------------
(* Program constants                                                       *)

\* batch_so_far % 100, line 317
LogEvery == 100
\* current_accuracy - prev_accuracy < 0.00000001 (line 326), in 1e-11 units
StopThreshold == 1000

----------------------------------------------------------------------------
(* Helpers                                                                 *)

Min(a, b) == IF a < b THEN a ELSE b

Range(s) == {s[k] : k \in 1..Len(s)}

\* math.ceil(a / b) for integers a >= 0, b >= 1 (line 303)
CeilDiv(a, b) == (a + b - 1) \div b

\* a variant that rounds the training share down
TrainCountFloor(n) == (4 * n) \div 5

\* math.ceil(0.8 * n), line 298.  The double 0.8 * n rounds to the integer
\* 4n/5 whenever 5 divides n, and is at least 0.2 away from an integer
\* otherwise, so the float ceiling is the exact one.
TrainCount(n) == (4 * n + 4) \div 5

\* The Python slice s[a:b] of a sequence, 0 <= a <= b: the elements at the
\* 0-based positions a .. min(b, len(s)) - 1; empty when a >= len(s).
PySlice(s, a, b) == SubSeq(s, a + 1, Min(b, Len(s)))

\* np.random.permutation(n): every ordering of 0 .. n-1
permutation(n) ==
    {p \in [1..n -> 0..(n - 1)] : \A x, y \in 1..n : p[x] = p[y] => x = y}

----------------------------------------------------------------------------
(* L_layer_model, INIT phase: lines 293-309                                *)

SplitIdle ==
    /\ sp_pc = "idle" /\ sp_N = 0 /\ sp_batch_size = 0 /\ indices = <<>>
    /\ training_idx = <<>> /\ test_idx = <<>> /\ X_batches = <<>> /\ sp_i = 0

SplitInit ==
    /\ sp_pc = "split"
    /\ sp_N \in 1..MaxN
    /\ sp_batch_size \in 1..MaxBatchSize
    /\ indices = <<>> /\ training_idx = <<>> /\ test_idx = <<>>
    /\ X_batches = <<>> /\ sp_i = 0

\* lines 296-306: the permutation and the two index ranges
SplitData ==
    /\ sp_pc = "split"
    /\ \E p \in permutation(sp_N) :
         /\ indices' = p
         /\ training_idx' = PySlice(p, 0, TrainCount(sp_N))
         /\ test_idx' = PySlice(p, TrainCount(sp_N), sp_N)
    /\ X_batches' = <<>>
    /\ sp_i' = 0
    /\ sp_pc' = "batching"
    /\ UNCHANGED <<sp_N, sp_batch_size>>
    /\ SplitStep

\* batch_num, line 303
BatchNum(n_train, batch_size) == CeilDiv(n_train, batch_size)

\* lines 307-309, one iteration: X_train[i*batch_size:(i+1)*batch_size, :]
AppendBatch ==
    /\ sp_pc = "batching"
    /\ sp_i < BatchNum(Len(training_idx), sp_batch_size)
    /\ X_batches' = Append(X_batches,
                           PySlice(training_idx, sp_i * sp_batch_size,
                                   (sp_i + 1) * sp_batch_size))
    /\ sp_i' = sp_i + 1
    /\ UNCHANGED <<sp_pc, sp_N, sp_batch_size, indices, training_idx, test_idx>>
    /\ SplitStep

\* the loop of line 307 runs out
EndBatching ==
    /\ sp_pc = "batching"
    /\ sp_i >= BatchNum(Len(training_idx), sp_batch_size)
    /\ sp_pc' = "ready"
    /\ UNCHANGED <<sp_N, sp_batch_size, indices, training_idx, test_idx,
                   X_batches, sp_i>>
    /\ SplitStep

SplitNext == SplitData \/ AppendBatch \/ EndBatching

----------------------------------------------------------------------------
(* Accuracies.  predict returns correct / N_sampels, a double in [0, 1] or *)
(* nan (0 / 0, no sample).  A double is modelled as hi * 1e-2 + lo * 1e-11 *)
(* with 0 <= lo < 1e9, exact for the values used: the rounding error of a  *)
(* double in [0, 1] is far below 1e-11.                                    *)

Acc(hi, lo) == [nan |-> FALSE, hi |-> hi, lo |-> lo]

NaN == [nan |-> TRUE, hi |-> 0, lo |-> 0]

\* a - b on doubles (line 326): nan when either is nan; the difference is
\* kept as hi * 1e-2 + lo * 1e-11 with -1e9 < lo < 1e9
FloatSub(a, b) ==
    IF a.nan \/ b.nan THEN NaN ELSE Acc(a.hi - b.hi, a.lo - b.lo)

\* d < t for a difference d and a threshold t of 0 <= t < 1e9 units of
\* 1e-11: every comparison with nan is false
FloatLess(d, t) ==
    /\ ~d.nan
    /\ \/ d.hi < 0
       \/ d.hi = 0 /\ d.lo < t
       \/ d.hi = 1 /\ d.lo < t - 1000 * 1000 * 1000

\* a variant that stops only on a small change in either direction
StopOnPlateauOnly(cur, prev) ==
    /\ FloatLess(FloatSub(cur, prev), StopThreshold)
    /\ FloatLess(FloatSub(prev, cur), StopThreshold)

\* line 326: current_accuracy - prev_accuracy < 0.00000001
StopCondition(cur, prev) == FloatLess(FloatSub(cur, prev), StopThreshold)

\* The accuracies the model lets predict return on a non-empty sample set:
\* 0, 0.10, 0.49999999999, 0.50, 0.50000000005, 0.5000000101, 1
AccuracyValues ==
    {Acc(0, 0), Acc(10, 0), Acc(49, 999999999), Acc(50, 0), Acc(50, 5),
     Acc(50, 1010), Acc(100, 0)}

\* predict (lines 336-350) as the training loop sees it: correct / N_sampels
predict(n_samples) == IF n_samples = 0 THEN {NaN} ELSE AccuracyValues

\* L_model_forward (lines 107-116) returns only when its loop of line 108
\* ran at least once: line 116 reads the loop variable l, which is unbound
\* for layers_num <= 1 (UnboundLocalError)
ForwardCompletes(layers_num) == layers_num >= 2

\* a variant that samples on the batch index within the epoch
ShouldLogInEpoch(count, jj) == (jj + 1) % LogEvery = 0

\* line 317: batch_so_far % 100 == 0, batch j of the epoch just processed
ShouldLog(count, jj) == count % LogEvery = 0

----------------------------------------------------------------------------
(* L_layer_model, the training loop: lines 310-334                         *)

TrainIdle ==
    /\ pc = "idle" /\ cfg = <<>> /\ i = 0 /\ j = 0 /\ batch_so_far = 0
    /\ costs = <<>> /\ stop_sign = FALSE /\ current_accuracy = Acc(0, 0)
    /\ prev_accuracy = Acc(0, 0) /\ W_b_ver = 0 /\ AL_ver = 0 /\ grads_ver = 0
    /\ it = 0 /\ acc_trace = <<>>

\* num_iterations: the small budgets and the longest one
IterChoices == (0..3) \cup {MaxIter}

\* The state INIT leaves (lines 293-309) for the call's arguments; layers_dims
\* is a layer spec of L + 1 >= 2 widths, so W_b_dict holds L >= 1 layers
TrainInit ==
    /\ pc = "epoch"
    /\ \E N \in 1..MaxN, bs \in 1..MaxBatchSize, n \in IterChoices,
          L \in 1..MaxLayers, l2 \in BOOLEAN :
         cfg = [N |-> N, batch_size |-> bs, num_iterations |-> n,
                layers_num |-> L, L2_norm |-> l2,
                n_val |-> N - TrainCount(N),
                num_batches |-> BatchNum(TrainCount(N), bs)]
    /\ i = cfg.num_batches - 1   \* left by the loop of line 307
    /\ j = 0 /\ batch_so_far = 0 /\ costs = <<>> /\ stop_sign = FALSE
    /\ current_accuracy = Acc(0, 0) /\ prev_accuracy = Acc(0, 0)
    /\ W_b_ver = 0 /\ AL_ver = 0 /\ grads_ver = 0
    /\ it = 0 /\ acc_trace = <<>>

\* The Trainer's state, read off the position in L_layer_model
TrainerState ==
    CASE pc \in {"epoch", "forward", "backward", "update", "log", "validate"}
           -> "RUNNING"
      [] pc \in {"final", "done"}
           -> IF stop_sign THEN "CONVERGED" ELSE "EXHAUSTED"
      [] pc = "aborted" -> "ABORTED"
      [] OTHER -> "INIT"

\* lines 310-312: the next epoch, or the end of the loop
EpochHead ==
    /\ pc = "epoch"
    /\ IF it < cfg.num_iterations
       THEN /\ i' = it
            /\ it' = it + 1
            /\ j' = 0
            /\ pc' = IF stop_sign THEN "epoch"
                     ELSE IF cfg.num_batches > 0 THEN "forward" ELSE "validate"
       ELSE /\ pc' = "final"
            /\ UNCHANGED <<i, it, j>>
    /\ UNCHANGED <<cfg, batch_so_far, costs, stop_sign, current_accuracy,
                   prev_accuracy, W_b_ver, AL_ver, grads_ver, acc_trace>>
    /\ TrainStep

\* line 313: AL, caches = L_model_forward(X_batches[j], W_b_dict)
Forward ==
    /\ pc = "forward"
    /\ IF ForwardCompletes(cfg.layers_num)
       THEN AL_ver' = W_b_ver /\ pc' = "backward"
       ELSE AL_ver' = AL_ver /\ pc' = "aborted"
    /\ UNCHANGED <<cfg, i, j, batch_so_far, costs, stop_sign, current_accuracy,
                   prev_accuracy, W_b_ver, grads_ver, it, acc_trace>>
    /\ TrainStep

\* line 314: grads = L_model_backward(AL, Y_batches[j], caches)
Backward ==
    /\ pc = "backward"
    /\ grads_ver' = AL_ver
    /\ pc' = "update"
    /\ UNCHANGED <<cfg, i, j, batch_so_far, costs, stop_sign, current_accuracy,
                   prev_accuracy, W_b_ver, AL_ver, it, acc_trace>>
    /\ TrainStep

\* line 315: W_b_dict = update_parameters(W_b_dict, grads, ...)
Update ==
    /\ pc = "update"
    /\ W_b_ver' = W_b_ver + 1
    /\ pc' = "log"
    /\ UNCHANGED <<cfg, i, j, batch_so_far, costs, stop_sign, current_accuracy,
                   prev_accuracy, AL_ver, grads_ver, it, acc_trace>>
    /\ TrainStep

\* a variant that takes the penalty from the weights the forward pass read
CostEntryBeforeUpdate(count, al, w, l2) ==
    [batch |-> count, AL_of |-> al, L2_term |-> l2, W_of |-> al]

\* lines 318-323: compute_cost(AL, Y_batches[j]) on the AL of line 313, and
\* under L2_norm the penalty summed over the W_b_dict of that moment
CostEntry(count, al, w, l2) ==
    [batch |-> count, AL_of |-> al, L2_term |-> l2, W_of |-> w]

\* lines 316-324: count the batch; on a sampled batch compute_cost(AL, Y)
\* plus, under L2_norm, the penalty of the weights W_b_dict holds now
Log ==
    /\ pc = "log"
    /\ batch_so_far' = batch_so_far + 1
    /\ costs' = IF ShouldLog(batch_so_far + 1, j)
                THEN Append(costs, CostEntry(batch_so_far + 1, AL_ver, W_b_ver,
                                             cfg.L2_norm))
                ELSE costs
    /\ IF j + 1 < cfg.num_batches
       THEN j' = j + 1 /\ pc' = "forward"
       ELSE j' = j /\ pc' = "validate"
    /\ UNCHANGED <<cfg, i, stop_sign, current_accuracy, prev_accuracy, W_b_ver,
                   AL_ver, grads_ver, it, acc_trace>>
    /\ TrainStep

\* lines 325-329: validation accuracy, then stop or remember it
Validate ==
    /\ pc = "validate"
    /\ \E a \in predict(cfg.n_val) :
         /\ current_accuracy' = a
         /\ acc_trace' = Append(acc_trace, a)
         /\ IF StopCondition(a, prev_accuracy)
            THEN /\ stop_sign' = TRUE
                 /\ pc' = "final"
                 /\ UNCHANGED prev_accuracy
            ELSE /\ prev_accuracy' = a
                 /\ pc' = "epoch"
                 /\ UNCHANGED stop_sign
    /\ UNCHANGED <<cfg, i, j, batch_so_far, costs, W_b_ver, AL_ver, grads_ver,
                   it>>
    /\ TrainStep

\* lines 331-334: the two final predict calls and the return
Final ==
    /\ pc = "final"
    /\ pc' = "done"
    /\ UNCHANGED <<cfg, i, j, batch_so_far, costs, stop_sign, current_accuracy,
                   prev_accuracy, W_b_ver, AL_ver, grads_ver, it, acc_trace>>
    /\ TrainStep

----------------------------------------------------------------------------
(* One cycle of lines 313-315 on a parameter set of L layers:              *)
(* L_model_forward (94-121), L_model_backward (227-254), update_parameters *)
(* (256-276).  An activation A_k, a pre-activation Z_k and a gradient are  *)
(* named by the layer k that produced them (A_0 is X); the numbers the     *)
(* float arithmetic yields for dW and db are inputs of the model.          *)

NetIdle ==
    /\ n_pc = "idle" /\ W_b_dict = [W |-> <<>>, b |-> <<>>]
    /\ W_b_0 = [W |-> <<>>, b |-> <<>>] /\ n_hp = <<>> /\ l = <<>>
    /\ caches = <<>> /\ applied = <<>> /\ used = <<>>
    /\ grads = [dA |-> <<>>, dW |-> <<>>, db |-> <<>>] /\ bi = 0

WeightValues == {-1, 2}
BiasValues == {0, 3}
\* the (dW, db) pairs a backward step may produce
GradValues == {<<-2, 1>>, <<1, -1>>, <<3, 2>>}
LearningRates == {2, 3}
\* the inputs X: one feature, one column per sample
XValues == {<<1, -1, 0>>, <<-2, 3, 1>>}

\* len(W_b_dict) // 2, lines 107 and 268
LayersNum(wb) == Len(wb.W)

\* a gradient array that no layer has written yet
NoGrad ==
    [set |-> FALSE, src |-> 0, zeroed_by |-> {}, zero_at |-> {}, val |-> 0]

NetInit ==
    /\ n_pc = "forward"
    /\ \E L \in 0..MaxNetLayers :
         \E W \in [1..L -> WeightValues], b \in [1..L -> BiasValues] :
            W_b_dict = [W |-> W, b |-> b]
    /\ W_b_0 = W_b_dict
    /\ \E lr \in LearningRates, l2 \in BOOLEAN, X \in XValues :
         n_hp = [learning_rate |-> lr, L2_norm |-> l2, X |-> X]
    /\ l = <<>>                \* a local variable not yet bound
    /\ caches = <<>> /\ applied = <<>> /\ used = <<>>
    /\ grads = [dA |-> [k \in 1..LayersNum(W_b_dict) |-> NoGrad],
                dW |-> [k \in 1..LayersNum(W_b_dict) |-> NoGrad],
                db |-> [k \in 1..LayersNum(W_b_dict) |-> NoGrad]]
    /\ bi = 0

\* line 38 for a layer of one unit: Z = np.dot(W, A) + b, column by column
LinearZ(A, W, b) == [p \in DOMAIN A |-> W * A[p] + b]

\* line 65: np.maximum(0, Z)
relu(Z) == [p \in DOMAIN Z |-> IF Z[p] > 0 THEN Z[p] ELSE 0]

\* linear_activation_forward (71-92): cache = ((A_prev, W, b), Z); A is the
\* array A_prev holds, Z_val the array Z holds
LayerCache(wb, k, A) ==
    [A_prev |-> k - 1, W |-> wb.W[k], b |-> wb.b[k], Z |-> k,
     A_val |-> A, Z_val |-> LinearZ(A, wb.W[k], wb.b[k])]

\* the A that lines 105 and 110 hand to the next layer: X, then the ReLU
\* output of the layer before
Activation ==
    IF caches = <<>> THEN n_hp.X ELSE relu(caches[Len(caches)].Z_val)

\* the value the loop variable of line 108 takes next, if any
NextHidden == IF l = <<>> THEN 1 ELSE l[1] + 1

\* lines 108-114, one iteration: a ReLU layer
ForwardHidden ==
    /\ n_pc = "forward"
    /\ NextHidden < LayersNum(W_b_dict)
    /\ l' = <<NextHidden>>
    /\ caches' = Append(caches, LayerCache(W_b_dict, NextHidden,
                                           Activation))
    /\ applied' = Append(applied, [layer |-> NextHidden, activation |-> "relu"])
    /\ UNCHANGED <<n_pc, W_b_dict, W_b_0, n_hp, used, grads, bi>>
    /\ NetStep

\* lines 116-121: the softmax layer, W_b_dict['W' + str(l+1)]; reading an
\* unbound l raises UnboundLocalError
ForwardLast ==
    /\ n_pc = "forward"
    /\ NextHidden >= LayersNum(W_b_dict)
    /\ IF l = <<>>
       THEN /\ n_pc' = "error"
            /\ UNCHANGED <<caches, applied>>
       ELSE /\ n_pc' = "backward"
            /\ caches' = Append(caches, LayerCache(W_b_dict, l[1] + 1,
                                                   Activation))
            /\ applied' = Append(applied, [layer |-> l[1] + 1,
                                           activation |-> "softmax"])
    /\ UNCHANGED <<W_b_dict, W_b_0, n_hp, l, used, grads, bi>>
    /\ NetStep

\* a variant of the loop of line 247 that starts one cache too low
BackwardFirstSkipping(num_layers) == num_layers - 3

\* reversed(range(num_layers - 1)), line 247: the first value of i
BackwardFirst(num_layers) == num_layers - 2

\* linear_backward's outputs (158-177) for the layer of cache c: dA_prev is
\* a fresh array, dW and db carry the numbers g = (dW, db)
LinearBackward(c, g) ==
    [dA_prev |-> [set |-> TRUE, src |-> c.Z, zeroed_by |-> {},
                  zero_at |-> {}, val |-> 0],
     dW |-> [set |-> TRUE, src |-> c.Z, zeroed_by |-> {},
             zero_at |-> {}, val |-> g[1]],
     db |-> [set |-> TRUE, src |-> c.Z, zeroed_by |-> {},
             zero_at |-> {}, val |-> g[2]]]

\* lines 236-244: dAL, then the softmax layer from caches[-1]
BackwardLast ==
    /\ n_pc = "backward"
    /\ LET num_layers == Len(caches)
           c == caches[Len(caches)]
       IN \E g \in GradValues :
            LET out == LinearBackward(c, g) IN
            /\ grads' = [dA |-> [grads.dA EXCEPT ![num_layers] = out.dA_prev],
                         dW |-> [grads.dW EXCEPT ![num_layers] = out.dW],
                         db |-> [grads.db EXCEPT ![num_layers] = out.db]]
            /\ used' = Append(used, [cache |-> Len(caches),
                                     activation |-> "softmax",
                                     dA |-> "dAL", layer |-> num_layers])
            /\ bi' = BackwardFirst(num_layers)
    /\ n_pc' = "backward_loop"
    /\ UNCHANGED <<W_b_dict, W_b_0, n_hp, l, caches, applied>>
    /\ NetStep

\* a variant of relu_backward that masks a copy and leaves its argument
\* as it was
relu_backward_copy(dA, c) == dA

\* relu_backward (200-209) on the array dA with the Z of cache c: the array
\* after line 208, which is also the array returned.  zero_at collects the
\* columns set to zero, zeroed_by the layers whose Z was the mask
relu_backward(dA, c) ==
    [dA EXCEPT !.zeroed_by = @ \cup {c.Z},
               !.zero_at = @ \cup {p \in DOMAIN c.Z_val : c.Z_val[p] <= 0}]

\* lines 247-253, one iteration: relu_backward works on the array stored as
\* grads["dA" + str(i+2)], then linear_backward makes the layer's outputs
BackwardHidden ==
    /\ n_pc = "backward_loop"
    /\ bi >= 0
    /\ LET c == caches[bi + 1]       \* caches[i]
       IN \E g \in GradValues :
            LET out == LinearBackward(c, g)
                dA == relu_backward(grads.dA[bi + 2], c)
            IN
            /\ grads' = [dA |-> [grads.dA EXCEPT ![bi + 2] = dA,
                                                 ![bi + 1] = out.dA_prev],
                         dW |-> [grads.dW EXCEPT ![bi + 1] = out.dW],
                         db |-> [grads.db EXCEPT ![bi + 1] = out.db]]
            /\ used' = Append(used, [cache |-> bi + 1, activation |-> "relu",
                                     dA |-> bi + 2, layer |-> bi + 1])
    /\ bi' = bi - 1
    /\ UNCHANGED <<n_pc, W_b_dict, W_b_0, n_hp, l, caches, applied>>
    /\ NetStep

\* the loop of line 247 runs out; line 254 returns grads
BackwardReturn ==
    /\ n_pc = "backward_loop"
    /\ bi < 0
    /\ n_pc' = "update"
    /\ l' = <<>>        \* update_parameters' own local l
    /\ UNCHANGED <<W_b_dict, W_b_0, n_hp, caches, applied, used, grads, bi>>
    /\ NetStep

\* a variant that decays the weights by learning_rate * W
UpdatedWPlainDecay(w, dw, learning_rate, L2_norm) ==
    IF L2_norm THEN w - learning_rate * dw - learning_rate * w
    ELSE w - learning_rate * dw

\* lines 270-274
UpdatedW(w, dw, learning_rate, L2_norm) ==
    IF L2_norm THEN w - learning_rate * (dw + learning_rate * w)
    ELSE w - learning_rate * dw

\* line 275
UpdatedB(b, db, learning_rate) == b - learning_rate * db

\* lines 269-275, one iteration
UpdateLayer ==
    /\ n_pc = "update"
    /\ NextHidden <= LayersNum(W_b_dict)
    /\ LET k == NextHidden IN
         /\ l' = <<k>>
         /\ W_b_dict' =
              [W |-> [W_b_dict.W EXCEPT
                        ![k] = UpdatedW(@, grads.dW[k].val, n_hp.learning_rate,
                                        n_hp.L2_norm)],
               b |-> [W_b_dict.b EXCEPT
                        ![k] = UpdatedB(@, grads.db[k].val, n_hp.learning_rate)]]
    /\ UNCHANGED <<n_pc, W_b_0, n_hp, caches, applied, used, grads, bi>>
    /\ NetStep

\* line 276
UpdateReturn ==
    /\ n_pc = "update"
    /\ NextHidden > LayersNum(W_b_dict)
    /\ n_pc' = "done"
    /\ UNCHANGED <<W_b_dict, W_b_0, n_hp, l, caches, applied, used, grads, bi>>
    /\ NetStep

NetNext ==
    \/ ForwardHidden \/ ForwardLast \/ BackwardLast \/ BackwardHidden
    \/ BackwardReturn \/ UpdateLayer \/ UpdateReturn

----------------------------------------------------------------------------
(* Array shapes.  A shape is the tuple numpy's .shape gives: <<>> for a    *)
(* scalar, <<n>> for a vector, <<r, c>> for a matrix.  A call returns      *)
(* [ok |-> TRUE, out |-> the shapes it returns], or [ok |-> FALSE, ...]    *)
(* when numpy or an assert raises.                                         *)

Raised == [ok |-> FALSE, out |-> <<>>]
Returned(shapes) == [ok |-> TRUE, out |-> shapes]

Max(a, b) == IF a > b THEN a ELSE b

RECURSIVE Size(_)
\* ndarray.size: the product of the dimensions
Size(shape) == IF shape = <<>> THEN 1 ELSE Head(shape) * Size(Tail(shape))

\* ndarray.T
Transposed(shape) == [k \in 1..Len(shape) |-> shape[Len(shape) + 1 - k]]

\* shape with leading 1s up to n dimensions
Padded(shape, n) ==
    [k \in 1..n |-> IF k <= n - Len(shape) THEN 1 ELSE shape[k - (n - Len(shape))]]

\* a variant of the elementwise rule that accepts equal shapes only
BroadcastExact(a, b) == IF a = b THEN Returned(<<a>>) ELSE Raised

\* numpy's broadcasting of two operands of an elementwise operation
Broadcast(a, b) ==
    LET n == Max(Len(a), Len(b))
        pa == Padded(a, n)
        pb == Padded(b, n)
    IN IF \A k \in 1..n : pa[k] = pb[k] \/ pa[k] = 1 \/ pb[k] = 1
       THEN Returned(<<[k \in 1..n |-> Max(pa[k], pb[k])]>>)
       ELSE Raised

\* np.dot(a, b) for operands of up to two dimensions
NpDot(a, b) ==
    CASE Len(a) = 0 -> Returned(<<b>>)
      [] Len(a) > 0 /\ Len(b) = 0 -> Returned(<<a>>)
      [] Len(a) = 1 /\ Len(b) = 1 ->
           IF a[1] = b[1] THEN Returned(<< <<>> >>) ELSE Raised
      [] Len(a) = 2 /\ Len(b) = 1 ->
           IF a[2] = b[1] THEN Returned(<< <<a[1]>> >>) ELSE Raised
      [] Len(a) = 1 /\ Len(b) = 2 ->
           IF a[1] = b[1] THEN Returned(<< <<b[2]>> >>) ELSE Raised
      [] OTHER ->
           IF a[2] = b[1] THEN Returned(<< <<a[1], b[2]>> >>) ELSE Raised

\* np.sum(a, axis=1, keepdims=True)
NpSumAxis1(a) == IF Len(a) < 2 THEN Raised ELSE Returned(<< <<a[1], 1>> >>)

\* a variant of initialize_parameters that refuses a spec without a layer
initialize_parameters_checked(layers_dim) ==
    IF Len(layers_dim) < 2 THEN Raised
    ELSE Returned([k \in 1..(2 * (Len(layers_dim) - 1)) |->
                     IF k % 2 = 1
                     THEN <<layers_dim[(k + 1) \div 2 + 1], layers_dim[(k + 1) \div 2]>>
                     ELSE <<layers_dim[k \div 2 + 1], 1>>])

\* initialize_parameters (8-26): for i in range(1, len(layers_dim)) the
\* shapes of W_i and b_i, returned in the order W1, b1, W2, b2, ...; the
\* asserts of lines 24-25 compare each array with the shape it was made with
initialize_parameters(layers_dim) ==
    Returned([k \in 1..(2 * Max(Len(layers_dim) - 1, 0)) |->
                IF k % 2 = 1
                THEN <<layers_dim[(k + 1) \div 2 + 1], layers_dim[(k + 1) \div 2]>>
                ELSE <<layers_dim[k \div 2 + 1], 1>>])

\* linear_forward (28-43) on matrices A and W and a bias of any shape
linear_forward(A, W, b) ==
    LET d == NpDot(W, A) IN
    IF ~d.ok THEN Raised
    ELSE LET Z == Broadcast(d.out[1], b) IN
         IF ~Z.ok THEN Raised
         ELSE IF Z.out[1] = <<W[1], A[2]>>      \* the assert of line 42
              THEN Returned(<<Z.out[1]>>) ELSE Raised

\* L_model_backward, lines 236-241: Y.reshape(AL.shape), then dAL
reshape_labels(AL, Y) ==
    IF Size(Y) = Size(AL) THEN Returned(<<AL>>) ELSE Raised

\* linear_backward (158-177) on a gradient dZ of one or two dimensions and
\* the cache (A_prev, W, b) of matrices A_prev and W
linear_backward(dZ, A_prev, W, b) ==
    LET dA_prev == NpDot(Transposed(W), dZ)
        dW == NpDot(dZ, Transposed(A_prev))
        db == NpSumAxis1(dZ)
    IN IF ~dA_prev.ok \/ ~dW.ok \/ ~db.ok THEN Raised
       ELSE IF /\ dA_prev.out[1] = A_prev       \* the asserts of 174-176
               /\ dW.out[1] = W
               /\ db.out[1] = b
            THEN Returned(<<dA_prev.out[1], dW.out[1], db.out[1]>>)
            ELSE Raised

Dims == 1..MaxDim
Matrices == {<<r, c>> : r \in Dims, c \in Dims}
Vectors == {<<n>> : n \in Dims}
Shapes == Matrices \cup Vectors \cup {<<>>}
\* layer specs of 0 .. MaxSpecLen positive widths
LayerSpecs == UNION {[1..n -> Dims] : n \in 0..MaxSpecLen}

ShapeIdle == s_pc = "idle" /\ s_call = <<>> /\ s_result = Raised

ShapeInit ==
    /\ s_pc = "call"
    /\ s_result = Raised
    /\ \/ \E ld \in LayerSpecs :
            s_call = [op |-> "initialize_parameters", args |-> <<ld>>]
       \/ \E A \in Matrices, W \in Matrices, b \in Shapes :
            s_call = [op |-> "linear_forward", args |-> <<A, W, b>>]
       \/ \E AL \in Matrices, Y \in Matrices \cup Vectors :
            s_call = [op |-> "L_model_backward", args |-> <<AL, Y>>]
       \/ \E dZ \in Matrices \cup Vectors, A \in Matrices, W \in Matrices,
             b \in Shapes :
            s_call = [op |-> "linear_backward", args |-> <<dZ, A, W, b>>]

CallInitializeParameters ==
    /\ s_pc = "call" /\ s_call.op = "initialize_parameters"
    /\ s_result' = initialize_parameters(s_call.args[1])
    /\ s_pc' = "returned"
    /\ UNCHANGED s_call
    /\ ShapeStep

CallLinearForward ==
    /\ s_pc = "call" /\ s_call.op = "linear_forward"
    /\ s_result' = linear_forward(s_call.args[1], s_call.args[2], s_call.args[3])
    /\ s_pc' = "returned"
    /\ UNCHANGED s_call
    /\ ShapeStep

CallModelBackward ==
    /\ s_pc = "call" /\ s_call.op = "L_model_backward"
    /\ s_result' = reshape_labels(s_call.args[1], s_call.args[2])
    /\ s_pc' = "returned"
    /\ UNCHANGED s_call
    /\ ShapeStep

CallLinearBackward ==
    /\ s_pc = "call" /\ s_call.op = "linear_backward"
    /\ s_result' = linear_backward(s_call.args[1], s_call.args[2],
                                   s_call.args[3], s_call.args[4])
    /\ s_pc' = "returned"
    /\ UNCHANGED s_call
    /\ ShapeStep

ShapeNext ==
    \/ CallInitializeParameters \/ CallLinearForward
    \/ CallModelBackward \/ CallLinearBackward

----------------------------------------------------------------------------
(* The specifications                                                      *)

SpecSplitInit == SplitInit /\ TrainIdle /\ NetIdle /\ ShapeIdle
SpecSplit == SpecSplitInit /\ [][SplitNext]_vars

Init == SplitIdle /\ TrainInit /\ NetIdle /\ ShapeIdle
Next == EpochHead \/ Forward \/ Backward \/ Update \/ Log \/ Validate \/ Final
Spec == Init /\ [][Next]_vars
\* the interpreter runs the single thread on: a run that can step does
FairSpec == Spec /\ WF_vars(Next)

SpecNetInit == SplitIdle /\ TrainIdle /\ NetInit /\ ShapeIdle
SpecNet == SpecNetInit /\ [][NetNext]_vars

SpecShapeInit == SplitIdle /\ TrainIdle /\ NetIdle /\ ShapeInit
SpecShape == SpecShapeInit /\ [][ShapeNext]_vars

----------------------------------------------------------------------------
(* The claims                                                              *)

\* the claim's reading of "difference below 1e-8", on the model's doubles:
\* a nan on either side makes the comparison false
DifferenceBelowThreshold(cur, prev) ==
    /\ ~cur.nan /\ ~prev.nan
    /\ \/ cur.hi < prev.hi
       \/ cur.hi = prev.hi /\ cur.lo - prev.lo < 1000
       \/ cur.hi = prev.hi + 1 /\ cur.lo + 1000000000 - prev.lo < 1000

\* the accuracy an epoch is compared with: the epoch before, 0 for the first
Previous(trace, n) == IF n = 1 THEN Acc(0, 0) ELSE trace[n - 1]

\* C1: the step that finishes an epoch (it appends the epoch's validation
\* accuracy) leaves the Trainer CONVERGED when that accuracy minus the one
\* of the epoch before is below 1e-8, a decrease included, and RUNNING
\* otherwise; on 0.10, 0.50, 0.50000000005 it is RUNNING after the first
\* and the second epoch and CONVERGED after the third.
C1_StopExactlyOnSmallDifference ==
    [][Len(acc_trace') = Len(acc_trace) + 1 =>
         LET n == Len(acc_trace') IN
         /\ IF DifferenceBelowThreshold(acc_trace'[n], Previous(acc_trace', n))
            THEN TrainerState' = "CONVERGED"
            ELSE TrainerState' = "RUNNING"
         /\ acc_trace' \in {<<Acc(10, 0)>>, <<Acc(10, 0), Acc(50, 0)>>}
              => TrainerState' = "RUNNING"
         /\ acc_trace' = <<Acc(10, 0), Acc(50, 0), Acc(50, 5)>>
              => TrainerState' = "CONVERGED"]_vars

C1_Witness ==
    /\ acc_trace = <<Acc(10, 0), Acc(50, 0), Acc(50, 5)>>
    /\ TrainerState = "CONVERGED"

\* some epoch's accuracy was less than 1e-8 above the one before it
StopHeld(trace) ==
    \E n \in 1..Len(trace) :
       DifferenceBelowThreshold(trace[n], Previous(trace, n))

\* C5 without its first part: at most num_iterations epochs; a finished run
\* is EXHAUSTED exactly when all num_iterations epochs ran and the stop
\* condition held after none, CONVERGED otherwise; a finished run's
\* parameters have been through one update per counted batch and no more.
TerminalAccounting ==
    /\ it <= cfg.num_iterations
    /\ Len(acc_trace) <= it
    /\ TrainerState \in {"CONVERGED", "EXHAUSTED"} =>
         /\ TrainerState = "EXHAUSTED" <=>
              (Len(acc_trace) = cfg.num_iterations /\ ~StopHeld(acc_trace))
         /\ TrainerState = "CONVERGED" <=> StopHeld(acc_trace)
         /\ W_b_ver = batch_so_far
         /\ batch_so_far = Len(acc_trace) * cfg.num_batches

\* every run comes to its return or to the exception that aborts it
RunEnds == <>(pc \in {"done", "aborted"})

\* C5: every run of L_layer_model on a non-empty list of mini-batches ends
\* in CONVERGED or EXHAUSTED and in no other way, after at most
\* num_iterations epochs, EXHAUSTED exactly when every epoch ran without the
\* stop condition holding.
C5_EveryRunEndsConvergedOrExhausted ==
    /\ TrainerState \in {"INIT", "RUNNING", "CONVERGED", "EXHAUSTED"}
    /\ TerminalAccounting

\* C6: at every point of a run the cost trace holds one cost per full
\* hundred of processed mini-batches, counted across epochs, and the k-th
\* cost was taken at batch 100 k.
C6_CostEveryHundredBatches ==
    /\ Len(costs) = batch_so_far \div 100
    /\ \A k \in 1..Len(costs) : costs[k].batch = 100 * k

C6_Witness == Len(costs) = 2 /\ batch_so_far = 200 /\ i > 0

C10_SplitAndBatchesPartition ==
    sp_pc = "ready" =>
      LET n_train == Len(training_idx)
          nb == Len(X_batches)
      IN /\ 5 * n_train >= 4 * sp_N /\ 5 * (n_train - 1) < 4 * sp_N
         /\ Len(test_idx) = sp_N - n_train
         /\ Range(training_idx) \cap Range(test_idx) = {}
         /\ Range(training_idx) \cup Range(test_idx) = 0..(sp_N - 1)
         /\ Cardinality(Range(training_idx)) = n_train
         /\ \A x \in Range(training_idx) :
              Cardinality({<<k, q>> \in (1..nb) \X (1..sp_batch_size) :
                             q <= Len(X_batches[k]) /\ X_batches[k][q] = x}) = 1
         /\ \A k \in 1..nb : Range(X_batches[k]) \subseteq Range(training_idx)
         /\ nb * sp_batch_size >= n_train /\ (nb - 1) * sp_batch_size < n_train
         /\ \A k \in 1..nb : /\ Len(X_batches[k]) >= 1
                             /\ k < nb => Len(X_batches[k]) = sp_batch_size
                             /\ Len(X_batches[k]) <= sp_batch_size

C10_Witness ==
    /\ sp_pc = "ready" /\ sp_N = 5 /\ sp_batch_size = 3
    /\ Len(X_batches) = 2 /\ Len(X_batches[2]) = 1 /\ Len(test_idx) = 1

\* the steps a forward pass over L layers is to take, in order
ExpectedForward(L) ==
    [k \in 1..L |-> [layer |-> k,
                     activation |-> IF k < L THEN "relu" ELSE "softmax"]]

\* C2: on every parameter set of L >= 1 layers, a single layer included,
\* L_model_forward completes: it raises nothing, and once it has returned
\* it has applied linear+ReLU to layers 1..L-1 and linear+softmax to layer
\* L and holds exactly L caches, the k-th that of layer k.
C2_ForwardCompletesForEveryDepth ==
    LayersNum(W_b_0) >= 1 /\ n_pc # "idle" =>
      /\ n_pc # "error"
      /\ n_pc # "forward" =>
           /\ applied = ExpectedForward(LayersNum(W_b_0))
           /\ Len(caches) = LayersNum(W_b_0)
           /\ \A k \in 1..Len(caches) : caches[k].Z = k /\ caches[k].A_prev = k - 1

\* C7: update_parameters leaves every layer it has passed with
\* W - learning_rate dW (less learning_rate^2 W under L2) and
\* b - learning_rate db, each computed from the values the parameters had
\* before the call, and every layer it has not reached as it was.
C7_UpdateRule ==
    n_pc \in {"update", "done"} =>
      \A k \in 1..LayersNum(W_b_0) :
         IF n_pc = "done" \/ (l # <<>> /\ k <= l[1])
         THEN /\ W_b_dict.W[k] =
                   W_b_0.W[k] - n_hp.learning_rate * grads.dW[k].val
                   - (IF n_hp.L2_norm
                      THEN n_hp.learning_rate * n_hp.learning_rate * W_b_0.W[k]
                      ELSE 0)
              /\ W_b_dict.b[k] = W_b_0.b[k] - n_hp.learning_rate * grads.db[k].val
         ELSE W_b_dict.W[k] = W_b_0.W[k] /\ W_b_dict.b[k] = W_b_0.b[k]

C7_Witness ==
    /\ n_pc = "done" /\ n_hp.L2_norm /\ LayersNum(W_b_0) = 3
    /\ W_b_dict.W # W_b_0.W /\ W_b_0.b[1] # 0 /\ W_b_dict.b[1] # W_b_0.b[1]

\* C9: L_model_backward consumes the caches one per step, each once and
\* for its own layer: first the cache of layer L with the softmax step,
\* then those of layers L-1 down to 1 with the ReLU step; when it returns
\* all L caches are consumed and dW_l, db_l are set for every l in 1..L,
\* each by the step of layer l.
C9_CachesConsumedOnceInReverse ==
    n_pc \in {"backward_loop", "update", "done"} =>
      LET L == Len(caches) IN
      /\ Len(used) <= L
      /\ \A k \in 1..Len(used) :
           /\ used[k].cache = L + 1 - k
           /\ caches[used[k].cache].Z = used[k].layer
           /\ used[k].layer = L + 1 - k
           /\ used[k].activation = IF k = 1 THEN "softmax" ELSE "relu"
      /\ n_pc \in {"update", "done"} =>
           /\ Len(used) = L
           /\ \A q \in 1..L :
                /\ grads.dW[q].set /\ grads.dW[q].src = q
                /\ grads.db[q].set /\ grads.db[q].src = q

C9_Witness ==
    /\ n_pc = "update" /\ Len(caches) = 3
    /\ [k \in 1..3 |-> used[k].cache] = <<3, 2, 1>>

\* C3 as claimed: initialize_parameters raises on a layer spec of fewer
\* than 2 entries and never returns a parameter set for it.
C3_ShortSpecIsRefused ==
    (s_pc = "returned" /\ s_call.op = "initialize_parameters"
       /\ Len(s_call.args[1]) < 2) => ~s_result.ok

\* C3 as amended: initialize_parameters raises on no layer spec of positive
\* widths.  For a spec of fewer than 2 entries its loop runs no iteration
\* and it returns the empty parameter set (no W, no b); for a spec of
\* L + 1 >= 2 entries it returns W_i of shape (units_i, units_{i-1}) and b_i
\* of shape (units_i, 1) for i in 1..L.
C3_ShortSpecYieldsEmptyParameters ==
    (s_pc = "returned" /\ s_call.op = "initialize_parameters") =>
      LET ld == s_call.args[1] IN
      /\ s_result.ok
      /\ Len(ld) < 2 => s_result.out = <<>>
      /\ Len(ld) >= 2 =>
           /\ Len(s_result.out) = 2 * (Len(ld) - 1)
           /\ \A q \in 1..(Len(ld) - 1) :
                /\ s_result.out[2 * q - 1] = <<ld[q + 1], ld[q]>>
                /\ s_result.out[2 * q] = <<ld[q + 1], 1>>

C3_Witness ==
    /\ s_pc = "returned" /\ s_call.op = "initialize_parameters"
    /\ Len(s_call.args[1]) = 1 /\ s_result = Returned(<<>>)

\* C4 as claimed: a call that returns had operands of exactly the shapes the
\* step requires: a bias of shape (units, 1) in linear_forward, labels of
\* AL's shape in L_model_backward, a gradient of the shape of Z = W A_prev
\* in linear_backward.
C4_MismatchAlwaysAborts ==
    (s_pc = "returned" /\ s_result.ok) =>
      LET a == s_call.args IN
      CASE s_call.op = "linear_forward" -> a[3] = <<a[2][1], 1>>
        [] s_call.op = "L_model_backward" -> a[2] = a[1]
        [] s_call.op = "linear_backward" -> a[1] = <<a[3][1], a[2][2]>>
        [] OTHER -> TRUE

\* the bias shapes of up to two dimensions that broadcast onto (units, m)
BroadcastsOnto(units, m) ==
    {<<>>, <<1>>, <<m>>, <<1, 1>>, <<1, m>>, <<units, 1>>, <<units, m>>}

\* C4 as amended: linear_backward aborts on every gradient whose shape is
\* not that of Z = W A_prev, and returns only with a bias of shape
\* (units, 1).  linear_forward aborts exactly when W A is undefined or the
\* bias does not broadcast onto (units, m): a bias of shape (), (1,), (m,),
\* (1, 1), (1, m) or (units, m) is broadcast without an error.
\* L_model_backward aborts exactly when the labels and AL differ in their
\* number of elements: labels of another shape are reshaped to AL's.
C4_MismatchAbortsUnlessBroadcastOrReshaped ==
    s_pc = "returned" =>
      LET a == s_call.args IN
      CASE s_call.op = "linear_forward" ->
             /\ s_result.ok <=> /\ a[2][2] = a[1][1]
                                /\ a[3] \in BroadcastsOnto(a[2][1], a[1][2])
             /\ s_result.ok => s_result.out = << <<a[2][1], a[1][2]>> >>
        [] s_call.op = "L_model_backward" ->
             /\ s_result.ok <=> a[1][1] * a[1][2] =
                                  (IF Len(a[2]) = 1 THEN a[2][1]
                                   ELSE a[2][1] * a[2][2])
             /\ s_result.ok => s_result.out = <<a[1]>>
        [] s_call.op = "linear_backward" ->
             /\ s_result.ok => /\ a[1] = <<a[3][1], a[2][2]>>
                               /\ a[4] = <<a[3][1], 1>>
                               /\ s_result.out = <<a[2], a[3], a[4]>>
             /\ (/\ a[1] = <<a[3][1], a[2][2]>> /\ a[3][2] = a[2][1]
                 /\ a[4] = <<a[3][1], 1>>) => s_result.ok
        [] OTHER -> TRUE

\* a bias of shape (1, 1) broadcast over the 2 x 3 product of W and A
C4_Witness ==
    /\ s_pc = "returned"
    /\ s_call = [op |-> "linear_forward",
                 args |-> << <<2, 3>>, <<2, 2>>, <<1, 1>> >>]
    /\ s_result = Returned(<< <<2, 3>> >>)

\* the columns where the Z held by cache c is <= 0
NonPositiveColumns(c) == {p \in DOMAIN c.Z_val : c.Z_val[p] <= 0}

\* C11: once L_model_backward has returned, every stored grads["dA" + k]
\* with k in 2..L is still the array layer k's linear_backward produced, but
\* it holds zeros in exactly the columns where the Z of layer k-1 is <= 0,
\* put there by that layer's relu_backward and by no other; grads["dA1"] and
\* every dW and db are as they were computed.
C11_StoredGradientsMaskedInPlace ==
    n_pc \in {"update", "done"} =>
        LET L == Len(caches) IN
        /\ \A k \in 2..L :
              /\ grads.dA[k].set /\ grads.dA[k].src = k
              /\ grads.dA[k].zeroed_by = {k - 1}
              /\ grads.dA[k].zero_at = NonPositiveColumns(caches[k - 1])
        /\ grads.dA[1].set /\ grads.dA[1].src = 1
        /\ grads.dA[1].zeroed_by = {} /\ grads.dA[1].zero_at = {}
        /\ \A k \in 1..L :
              /\ grads.dW[k].zeroed_by = {} /\ grads.dW[k].zero_at = {}
              /\ grads.db[k].zeroed_by = {} /\ grads.db[k].zero_at = {}

\* a three-layer backward pass has returned; the first layer's Z has a
\* column that is exactly 0 and a positive one, and both stored dA2 and dA3
\* have been written to
C11_Witness ==
    /\ n_pc = "update" /\ Len(caches) = 3
    /\ \E p, q \in DOMAIN caches[1].Z_val :
          /\ caches[1].Z_val[p] = 0 /\ caches[1].Z_val[q] > 0
          /\ p \in grads.dA[2].zero_at /\ q \notin grads.dA[2].zero_at
    /\ grads.dA[3].zero_at # {}

====
